---- MODULE Spec2Model ----
(***************************************************************************)
(* Model of vinetrimmer/utils/AtomicSQL.py: the AtomicSQL registry of      *)
(* database connections, its registry-wide lock, its per-session locks and *)
(* the retry loop of safe_execute.  Each thread is a program counter over  *)
(* the statements of load, safe_execute and commit.                        *)
(***************************************************************************)
EXTENDS Integers, Sequences, FiniteSets, TLC

\* ---- bounds of the model ----
NumThreads == 2
MaxLoads == 2
MaxCalls == 4

\* ---- program constants ----
MaxFailures == 10
DelayFactor == 3

NoThread == 0
None == "None"

Threads == 1..NumThreads
\* connections: the k-th call of load is given connection k
Conns == 1..MaxLoads
Results == {"r1", "r2"}
\* exceptions an action raises that are not sqlite3.OperationalError
OtherErrors == {"E1", "E2"}
\* exceptions connection.cursor() raises
CursorErrors == {"OperationalError", "E3"}


VARIABLES
    master_lock,   \* self.master_lock: the thread holding it, or NoThread
    db,            \* self.db: session id -> connection
    session_lock,  \* self.session_lock: session id -> lock object (an id)
    locks,         \* lock object -> the thread holding it, or NoThread
    openCursors,   \* connection -> number of open cursors on it
    pc,            \* thread -> statement it is at
    op,            \* thread -> method it is in
    arg_sid,       \* thread -> session_id parameter
    arg_conn,      \* thread -> connection parameter of load
    session_id,    \* thread -> local session_id of load
    failures,      \* thread -> local failures of safe_execute
    cursor,        \* thread -> connection of its local cursor, or None
    res,           \* thread -> local res of safe_execute
    exc,           \* thread -> exception in flight
    attempts,      \* thread -> action invocations of the call in progress
    sleeps,        \* thread -> delays slept in the call in progress
    created,       \* thread -> cursors created in the call in progress
    closed,        \* thread -> cursors closed in the call in progress
    acquired,      \* thread -> locks acquired in the call in progress, in order
    commitCalls,   \* thread -> db.commit() invocations of the call in progress
    busies,        \* thread -> OperationalErrors the action raised in the call
    active,        \* number of threads inside an action
    issued,        \* session ids returned by load, in order
    loads,         \* load calls started
    calls,         \* calls started
    ended          \* the call that ended at the last step, if one did

vars == <<master_lock, db, session_lock, locks, openCursors, pc, op, arg_sid,
          arg_conn, session_id, failures, cursor, res, exc, attempts, sleeps,
          created, closed, acquired, commitCalls, busies, active, issued,
          loads, calls, ended>>

shared == <<master_lock, db, session_lock, locks, openCursors>>
args == <<op, arg_sid, arg_conn>>
locals == <<session_id, failures, cursor, res, exc>>
history == <<attempts, sleeps, created, closed, acquired, commitCalls,
            busies>>
budget == <<issued, loads, calls>>

NoEnd == [kind |-> "none", val |-> None, thread |-> NoThread, op |-> None,
          sid |-> 0]
Returned(v) == [kind |-> "return", val |-> v]
Raised(e) == [kind |-> "raise", val |-> e]

\* a dict assignment that drops the other entries
DictSetMut(d, k, v) == [x \in {k} |-> v]

\* d[k] = v of a Python dict
DictSet(d, k, v) == [x \in (DOMAIN d) \cup {k} |-> IF x = k THEN v ELSE d[x]]

\* an acquire that never waits
UnlockedMut(holder) == TRUE

\* Lock.acquire() goes through only when the lock is unlocked
Unlocked(holder) == holder = NoThread

\* a release that is left out
UnlockMut(ls, l) == ls

\* Lock.release() of lock l of the lock table ls
Unlock(ls, l) == [ls EXCEPT ![l] = NoThread]

Init ==
    /\ master_lock = NoThread
    /\ db = <<>>
    /\ session_lock = <<>>
    /\ locks = <<>>
    /\ openCursors = [c \in Conns |-> 0]
    /\ pc = [t \in Threads |-> "idle"]
    /\ op = [t \in Threads |-> None]
    /\ arg_sid = [t \in Threads |-> 0]
    /\ arg_conn = [t \in Threads |-> 0]
    /\ session_id = [t \in Threads |-> 0]
    /\ failures = [t \in Threads |-> 0]
    /\ cursor = [t \in Threads |-> 0]
    /\ res = [t \in Threads |-> None]
    /\ exc = [t \in Threads |-> None]
    /\ attempts = [t \in Threads |-> 0]
    /\ sleeps = [t \in Threads |-> <<>>]
    /\ created = [t \in Threads |-> 0]
    /\ closed = [t \in Threads |-> 0]
    /\ acquired = [t \in Threads |-> <<>>]
    /\ commitCalls = [t \in Threads |-> 0]
    /\ busies = [t \in Threads |-> 0]
    /\ active = 0
    /\ issued = <<>>
    /\ loads = 0
    /\ calls = 0
    /\ ended = NoEnd

\* a failure counter that is kept from one call to the next
ResetLocalsMut(t) ==
    /\ session_id' = [session_id EXCEPT ![t] = 0]
    /\ failures' = failures
    /\ cursor' = [cursor EXCEPT ![t] = 0]
    /\ res' = [res EXCEPT ![t] = None]
    /\ exc' = [exc EXCEPT ![t] = None]
    /\ attempts' = [attempts EXCEPT ![t] = 0]
    /\ sleeps' = [sleeps EXCEPT ![t] = <<>>]
    /\ created' = [created EXCEPT ![t] = 0]
    /\ closed' = [closed EXCEPT ![t] = 0]
    /\ acquired' = [acquired EXCEPT ![t] = <<>>]
    /\ commitCalls' = [commitCalls EXCEPT ![t] = 0]
    /\ busies' = [busies EXCEPT ![t] = 0]

\* the locals and the history of a call, as they are when a call starts
ResetLocals(t) ==
    /\ session_id' = [session_id EXCEPT ![t] = 0]
    /\ failures' = [failures EXCEPT ![t] = 0]
    /\ cursor' = [cursor EXCEPT ![t] = 0]
    /\ res' = [res EXCEPT ![t] = None]
    /\ exc' = [exc EXCEPT ![t] = None]
    /\ attempts' = [attempts EXCEPT ![t] = 0]
    /\ sleeps' = [sleeps EXCEPT ![t] = <<>>]
    /\ created' = [created EXCEPT ![t] = 0]
    /\ closed' = [closed EXCEPT ![t] = 0]
    /\ acquired' = [acquired EXCEPT ![t] = <<>>]
    /\ commitCalls' = [commitCalls EXCEPT ![t] = 0]
    /\ busies' = [busies EXCEPT ![t] = 0]

\* a call ends with outcome o: the frame is gone, and ended records the call
EndCall(t, o) ==
    /\ pc' = [pc EXCEPT ![t] = "idle"]
    /\ ended' = [kind |-> o.kind, val |-> o.val, thread |-> t, op |-> op[t],
                 sid |-> arg_sid[t]]
    /\ op' = [op EXCEPT ![t] = None]
    /\ arg_sid' = [arg_sid EXCEPT ![t] = 0]
    /\ arg_conn' = [arg_conn EXCEPT ![t] = 0]
    /\ ResetLocals(t)

\* a step of thread t inside a call, to statement p
Goto(t, p) ==
    /\ pc' = [pc EXCEPT ![t] = p]
    /\ ended' = NoEnd
    /\ UNCHANGED args

----
\* ---- calls ----


CallLoad(t) ==
    /\ pc[t] = "idle"
    /\ calls < MaxCalls
    /\ loads < MaxLoads
    /\ arg_conn' = [arg_conn EXCEPT ![t] = loads + 1]
    /\ op' = [op EXCEPT ![t] = "load"]
    /\ pc' = [pc EXCEPT ![t] = "ld_acquire"]
    /\ ended' = NoEnd
    /\ ResetLocals(t)
    /\ loads' = loads + 1
    /\ calls' = calls + 1
    /\ UNCHANGED <<shared, arg_sid, active, issued>>

----
\* ---- load ----

\* an acquire of a re-entrant lock
LdAcquireMut(t) ==
    /\ pc[t] = "ld_acquire"
    /\ Unlocked(master_lock) \/ master_lock = t
    /\ master_lock' = t
    /\ acquired' = [acquired EXCEPT ![t] = Append(@, "master")]
    /\ Goto(t, "ld_draw")
    /\ UNCHANGED <<db, session_lock, locks, openCursors, locals, attempts,
                   sleeps, created, closed, commitCalls, busies, active,
                   budget>>

\* self.master_lock.acquire()
LdAcquire(t) ==
    /\ pc[t] = "ld_acquire"
    /\ Unlocked(master_lock)
    /\ master_lock' = t
    /\ acquired' = [acquired EXCEPT ![t] = Append(@, "master")]
    /\ Goto(t, "ld_draw")
    /\ UNCHANGED <<db, session_lock, locks, openCursors, locals, attempts,
                   sleeps, created, closed, commitCalls, busies, active,
                   budget>>

\* a loop that does not test for a collision
NeedsDrawMut(t) == session_id[t] = 0

\* while not session_id or session_id in self.db
NeedsDraw(t) == session_id[t] = 0 \/ session_id[t] \in DOMAIN db

\* os.urandom(16): session ids are named in the order in which load first
\* draws them, so a draw is the id of a session or the next id
Draws == (DOMAIN db) \cup {Cardinality(DOMAIN db) + 1}

\* one turn of the loop: session_id = os.urandom(16), or the loop is left
LdDraw(t) ==
    /\ pc[t] = "ld_draw"
    /\ IF NeedsDraw(t)
         THEN /\ \E tok \in Draws : session_id' = [session_id EXCEPT ![t] = tok]
              /\ Goto(t, "ld_draw")
         ELSE /\ Goto(t, "ld_insert_db")
              /\ session_id' = session_id
    /\ UNCHANGED <<shared, failures, cursor, res, exc, history, active, budget>>

\* self.db[session_id] = connection
LdInsertDb(t) ==
    /\ pc[t] = "ld_insert_db"
    /\ db' = DictSet(db, session_id[t], arg_conn[t])
    /\ Goto(t, "ld_insert_lock")
    /\ UNCHANGED <<master_lock, session_lock, locks, openCursors, locals,
                   history, active, budget>>

\* Lock(): a lock object that did not exist before
NewLock == Cardinality(DOMAIN locks) + 1

\* a load that creates no lock for the session
LdInsertLockMut(t) ==
    /\ pc[t] = "ld_insert_lock"
    /\ Goto(t, "ld_release")
    /\ UNCHANGED <<shared, locals, history, active, budget>>

\* self.session_lock[session_id] = Lock()
LdInsertLock(t) ==
    /\ pc[t] = "ld_insert_lock"
    /\ locks' = DictSet(locks, NewLock, NoThread)
    /\ session_lock' = DictSet(session_lock, session_id[t], NewLock)
    /\ Goto(t, "ld_release")
    /\ UNCHANGED <<master_lock, db, openCursors, locals, history, active,
                   budget>>

\* a return with no finally clause: the registry-wide lock stays held
LdReleaseMut(t) ==
    /\ pc[t] = "ld_release"
    /\ issued' = Append(issued, session_id[t])
    /\ EndCall(t, Returned(session_id[t]))
    /\ UNCHANGED <<shared, active, loads, calls>>

\* return session_id, through finally: self.master_lock.release()
LdRelease(t) ==
    /\ pc[t] = "ld_release"
    /\ master_lock' = NoThread
    /\ issued' = Append(issued, session_id[t])
    /\ EndCall(t, Returned(session_id[t]))
    /\ UNCHANGED <<db, session_lock, locks, openCursors, active, loads, calls>>

----
\* ---- safe_execute ----

\* a membership test that is left out
IsRegisteredMut(s) == TRUE

\* session_id in self.db
IsRegistered(s) == s \in DOMAIN db

\* the session ids a caller can pass: the registered ones and the next one
Known == 1..(Cardinality(DOMAIN db) + 1)

\* safe_execute(s, action) or commit(s) is called, and its first statement
\* runs: if session_id not in self.db: raise ValueError(...)
SeCall(t) ==
    /\ pc[t] = "idle"
    /\ calls < MaxCalls
    /\ calls' = calls + 1
    /\ \E s \in Known, o \in {"safe_execute", "commit"} :
        IF ~IsRegistered(s)
          THEN /\ ended' = [kind |-> "raise", val |-> "InvalidSession",
                            thread |-> t, op |-> o, sid |-> s]
               /\ UNCHANGED <<pc, args>>
          ELSE /\ arg_sid' = [arg_sid EXCEPT ![t] = s]
               /\ op' = [op EXCEPT ![t] = o]
               /\ pc' = [pc EXCEPT ![t] = "se_acquire_master"]
               /\ ended' = NoEnd
               /\ UNCHANGED arg_conn
    /\ UNCHANGED <<shared, locals, history, active, issued, loads>>

\* a safe_execute that takes the session lock only
SeAcquireMasterMut(t) ==
    /\ pc[t] = "se_acquire_master"
    /\ acquired' = [acquired EXCEPT ![t] = Append(@, "master")]
    /\ Goto(t, "se_acquire_session")
    /\ UNCHANGED <<shared, locals, attempts, sleeps, created, closed,
                   commitCalls, busies, active, budget>>

\* self.master_lock.acquire()
SeAcquireMaster(t) ==
    /\ pc[t] = "se_acquire_master"
    /\ Unlocked(master_lock)
    /\ master_lock' = t
    /\ acquired' = [acquired EXCEPT ![t] = Append(@, "master")]
    /\ Goto(t, "se_acquire_session")
    /\ UNCHANGED <<db, session_lock, locks, openCursors, locals, attempts,
                   sleeps, created, closed, commitCalls, busies, active,
                   budget>>

\* self.session_lock[session_id].acquire(); a missing key raises KeyError
\* before the try statement is entered, so nothing is released
SeAcquireSession(t) ==
    /\ pc[t] = "se_acquire_session"
    /\ IF arg_sid[t] \notin DOMAIN session_lock
         THEN /\ EndCall(t, Raised("KeyError"))
              /\ UNCHANGED locks
         ELSE /\ Unlocked(locks[session_lock[arg_sid[t]]])
              /\ locks' = [locks EXCEPT ![session_lock[arg_sid[t]]] = t]
              /\ acquired' = [acquired EXCEPT ![t] = Append(@, "session")]
              /\ Goto(t, "se_cursor")
              /\ UNCHANGED <<locals, attempts, sleeps, created, closed,
                             commitCalls, busies>>
    /\ UNCHANGED <<master_lock, db, session_lock, openCursors, active, budget>>

\* a cursor created inside the inner try statement: its transient-busy
\* error is handled like one of the action
SeCursorMut(t) ==
    /\ pc[t] = "se_cursor"
    /\ \/ /\ cursor' = [cursor EXCEPT ![t] = db[arg_sid[t]]]
          /\ openCursors' = [openCursors EXCEPT ![db[arg_sid[t]]] = @ + 1]
          /\ created' = [created EXCEPT ![t] = @ + 1]
          /\ Goto(t, "se_action")
          /\ UNCHANGED <<exc, failures>>
       \/ /\ failures' = [failures EXCEPT ![t] = @ + 1]
          /\ Goto(t, "se_sleep")
          /\ UNCHANGED <<cursor, openCursors, created, exc>>
    /\ UNCHANGED <<master_lock, db, session_lock, locks, session_id, res,
                   attempts, sleeps, closed, acquired, commitCalls, busies,
                   active, budget>>

\* cursor = self.db[session_id].cursor(), which the driver may fail
SeCursor(t) ==
    /\ pc[t] = "se_cursor"
    /\ \/ /\ cursor' = [cursor EXCEPT ![t] = db[arg_sid[t]]]
          /\ openCursors' = [openCursors EXCEPT ![db[arg_sid[t]]] = @ + 1]
          /\ created' = [created EXCEPT ![t] = @ + 1]
          /\ Goto(t, "se_action")
          /\ exc' = exc
       \/ /\ \E e \in CursorErrors : exc' = [exc EXCEPT ![t] = e]
          /\ Goto(t, "se_release_session")
          /\ UNCHANGED <<cursor, openCursors, created>>
    /\ UNCHANGED <<master_lock, db, session_lock, locks, session_id, failures,
                   res, attempts, sleeps, closed, acquired, commitCalls,
                   busies, active, budget>>

\* res = action(db=..., cursor=cursor): control enters the action;
\* the action of commit is lambda db, cursor: db.commit()
SeActionEnter(t) ==
    /\ pc[t] = "se_action"
    /\ active' = active + 1
    /\ attempts' = [attempts EXCEPT ![t] = @ + 1]
    /\ commitCalls' = [commitCalls EXCEPT
                         ![t] = IF op[t] = "commit" THEN @ + 1 ELSE @]
    /\ Goto(t, "se_in_action")
    /\ UNCHANGED <<shared, locals, sleeps, created, closed, acquired, busies,
                   budget>>

\* the values an action can return: db.commit() returns None
ActionResults(t) == IF op[t] = "commit" THEN {None} ELSE Results

\* the action returns: res = ..., return res is pending
SeActionReturn(t) ==
    /\ pc[t] = "se_in_action"
    /\ active' = active - 1
    /\ \E r \in ActionResults(t) : res' = [res EXCEPT ![t] = r]
    /\ Goto(t, "se_close_return")
    /\ UNCHANGED <<shared, session_id, failures, cursor, exc, history, budget>>

\* the action raises sqlite3.OperationalError: failures += 1
SeActionBusy(t) ==
    /\ pc[t] = "se_in_action"
    /\ active' = active - 1
    /\ failures' = [failures EXCEPT ![t] = @ + 1]
    /\ busies' = [busies EXCEPT ![t] = @ + 1]
    /\ Goto(t, "se_sleep")
    /\ UNCHANGED <<shared, session_id, cursor, res, exc, attempts, sleeps,
                   created, closed, acquired, commitCalls, budget>>

\* the action raises another exception: except Exception: raise
SeActionRaise(t) ==
    /\ pc[t] = "se_in_action"
    /\ active' = active - 1
    /\ \E e \in OtherErrors : exc' = [exc EXCEPT ![t] = e]
    /\ Goto(t, "se_close_raise")
    /\ UNCHANGED <<shared, session_id, failures, cursor, res, history, budget>>

\* a delay that does not grow
DelayMut(f) == DelayFactor

\* delay = 3 * failures
Delay(f) == DelayFactor * f

\* a sleep that gives up the registry-wide lock
SeSleepMut(t) ==
    /\ pc[t] = "se_sleep"
    /\ sleeps' = [sleeps EXCEPT ![t] = Append(@, Delay(failures[t]))]
    /\ master_lock' = NoThread
    /\ Goto(t, "se_close_retry")
    /\ UNCHANGED <<db, session_lock, locks, openCursors, locals, attempts,
                   created, closed, acquired, commitCalls, busies, active,
                   budget>>

\* time.sleep(delay)
SeSleep(t) ==
    /\ pc[t] = "se_sleep"
    /\ sleeps' = [sleeps EXCEPT ![t] = Append(@, Delay(failures[t]))]
    /\ Goto(t, "se_close_retry")
    /\ UNCHANGED <<shared, locals, attempts, created, closed, acquired,
                   commitCalls, busies, active, budget>>

\* a test of failures that is off by one
ExhaustedMut(f) == f = MaxFailures + 1

\* if failures == 10
Exhausted(f) == f = MaxFailures

\* a cursor.close() that runs before the handler sleeps
ClosePcsMut == {"se_close_return", "se_close_raise", "se_close_retry",
                "se_sleep"}

\* the statements at which finally: cursor.close() is what runs next
ClosePcs == {"se_close_return", "se_close_raise", "se_close_retry"}

\* a handler that swallows the exception and lets the loop go on
AfterCloseMut(t) ==
    IF pc[t] \in {"se_close_retry", "se_close_raise"} /\ ~(failures[t] = MaxFailures)
      THEN "se_cursor"
      ELSE "se_release_session"

\* where the try statement leaves to once its finally clause has run: out of
\* the loop on a return or an exception in flight, else to the test of failures
AfterClose(t) ==
    IF pc[t] = "se_close_retry" /\ ~Exhausted(failures[t])
      THEN "se_cursor"
      ELSE "se_release_session"

\* a close that is left out
CloseCursorMut(oc, c) == oc

\* cursor.close() on a cursor of connection c, oc counting the open cursors
CloseCursor(oc, c) == [oc EXCEPT ![c] = @ - 1]

\* finally: cursor.close(); then if failures == 10: raise ValueError(...)
SeClose(t) ==
    /\ pc[t] \in ClosePcs
    /\ openCursors' = CloseCursor(openCursors, cursor[t])
    /\ cursor' = [cursor EXCEPT ![t] = 0]
    /\ closed' = [closed EXCEPT ![t] = @ + 1]
    /\ exc' = [exc EXCEPT ![t] =
                 IF pc[t] = "se_close_retry" /\ Exhausted(failures[t])
                   THEN "RetryExhausted" ELSE @]
    /\ Goto(t, AfterClose(t))
    /\ UNCHANGED <<master_lock, db, session_lock, locks, session_id, failures,
                   res, attempts, sleeps, created, acquired, commitCalls,
                   busies, active, budget>>

\* a finally clause that releases the registry-wide lock first
SeReleaseSessionMut(t) ==
    /\ pc[t] = "se_release_session"
    /\ master_lock' = NoThread
    /\ Goto(t, "se_release_master")
    /\ UNCHANGED <<db, session_lock, locks, openCursors, locals, history,
                   active, budget>>

\* finally: self.session_lock[session_id].release()
SeReleaseSession(t) ==
    /\ pc[t] = "se_release_session"
    /\ locks' = Unlock(locks, session_lock[arg_sid[t]])
    /\ Goto(t, "se_release_master")
    /\ UNCHANGED <<master_lock, db, session_lock, openCursors, locals, history,
                   active, budget>>

\* how safe_execute leaves: the exception in flight, or return res
SeOutcome(t) == IF exc[t] # None THEN Raised(exc[t]) ELSE Returned(res[t])

\* self.master_lock.release(), and safe_execute is left; an exception
\* passes through commit, a return goes on to commit's return statement
SeReleaseMaster(t) ==
    /\ pc[t] = "se_release_master"
    /\ master_lock' = NoThread
    /\ IF op[t] = "commit" /\ exc[t] = None
         THEN /\ Goto(t, "cm_return")
              /\ ResetLocals(t)
         ELSE EndCall(t, SeOutcome(t))
    /\ UNCHANGED <<db, session_lock, locks, openCursors, active, budget>>

----
\* ---- commit ----

\* a commit that reports failure
CommitResultMut == "False"

\* what commit returns: True
CommitResult == "True"

\* return True
CmReturn(t) ==
    /\ pc[t] = "cm_return"
    /\ EndCall(t, Returned(CommitResult))
    /\ UNCHANGED <<shared, active, budget>>

----
Next ==
    \E t \in Threads :
        \/ CallLoad(t)
        \/ LdAcquire(t)
        \/ LdDraw(t)
        \/ LdInsertDb(t)
        \/ LdInsertLock(t)
        \/ LdRelease(t)
        \/ SeCall(t)
        \/ SeAcquireMaster(t)
        \/ SeAcquireSession(t)
        \/ SeCursor(t)
        \/ SeActionEnter(t)
        \/ SeActionReturn(t)
        \/ SeActionBusy(t)
        \/ SeActionRaise(t)
        \/ SeSleep(t)
        \/ SeClose(t)
        \/ SeReleaseSession(t)
        \/ SeReleaseMaster(t)
        \/ CmReturn(t)

Spec == Init /\ [][Next]_vars

----
\* ---- scheduling ----

\* a step of thread t inside a call it has made
ThreadStep(t) ==
    \/ LdAcquire(t)
    \/ LdDraw(t)
    \/ LdInsertDb(t)
    \/ LdInsertLock(t)
    \/ LdRelease(t)
    \/ SeAcquireMaster(t)
    \/ SeAcquireSession(t)
    \/ SeCursor(t)
    \/ SeActionEnter(t)
    \/ SeActionReturn(t)
    \/ SeActionBusy(t)
    \/ SeActionRaise(t)
    \/ SeSleep(t)
    \/ SeClose(t)
    \/ SeReleaseSession(t)
    \/ SeReleaseMaster(t)
    \/ CmReturn(t)

\* a turn of load's loop that does not end on a colliding id
LdDrawFresh(t) == LdDraw(t) /\ session_id'[t] \notin DOMAIN db

\* a thread inside a call runs on: a statement that can run is run, an
\* action and a sleep return, a lock that stays free is granted, and
\* os.urandom does not collide for ever.  Callers need not call.
FairSpec ==
    /\ Spec
    /\ \A t \in Threads : WF_vars(ThreadStep(t)) /\ WF_vars(LdDrawFresh(t))

----
\* ---- actions that call back into the registry ----

\* the action passed to safe_execute calls load, safe_execute or commit of
\* the registry it runs under: the thread enters the call at its first
\* statement, with the frame of its safe_execute suspended inside the
\* action.  A nested safe_execute or commit is on a registered session (on
\* another id it raises into the action, which SeActionRaise covers); the
\* action of commit is db.commit(), which does not call back.
SeActionCallsBack(t) ==
    /\ pc[t] = "se_in_action"
    /\ op[t] = "safe_execute"
    /\ calls < MaxCalls
    /\ calls' = calls + 1
    /\ \/ /\ loads < MaxLoads
          /\ loads' = loads + 1
          /\ op' = [op EXCEPT ![t] = "load"]
          /\ arg_conn' = [arg_conn EXCEPT ![t] = loads + 1]
          /\ pc' = [pc EXCEPT ![t] = "ld_acquire"]
          /\ UNCHANGED arg_sid
       \/ /\ \E s \in Known, o \in {"safe_execute", "commit"} :
                /\ IsRegistered(s)
                /\ op' = [op EXCEPT ![t] = o]
                /\ arg_sid' = [arg_sid EXCEPT ![t] = s]
          /\ pc' = [pc EXCEPT ![t] = "se_acquire_master"]
          /\ UNCHANGED <<arg_conn, loads>>
    /\ ended' = NoEnd
    /\ UNCHANGED <<shared, locals, history, active, issued>>

NestedNext == Next \/ \E t \in Threads : SeActionCallsBack(t)

NestedSpec == Init /\ [][NestedNext]_vars

----
\* ---- properties ----

ReleasePcs == {"se_release_session", "se_release_master"}
LoopPcs == {"se_cursor", "se_action", "se_in_action", "se_sleep"} \cup ClosePcs
EndOf(t, o) == [kind |-> o.kind, val |-> o.val, thread |-> t, op |-> op[t],
                sid |-> arg_sid[t]]
HeldLocks(t) == {l \in DOMAIN locks : locks[l] = t}
HoldsSession(t) ==
    /\ arg_sid[t] \in DOMAIN session_lock
    /\ locks[session_lock[arg_sid[t]]] = t
Backoff(ss, n) == Len(ss) = n /\ \A i \in 1..n : ss[i] = 3 * i

\* C1: at every instant at most one thread is inside an action passed to
\* safe_execute: the counter incremented on entry to an action and
\* decremented on exit never exceeds 1, whatever the sessions are.
C1_Thm == active <= 1

\* a thread is inside its action while another thread has called
\* safe_execute on a different registered session
C1_Wit ==
    \E t, u \in Threads :
        /\ pc[t] = "se_in_action"
        /\ pc[u] = "se_acquire_master"
        /\ arg_sid[u] # arg_sid[t]

\* C2: the session ids returned by load are pairwise distinct, and the id a
\* load inserts is not a key of the registry when the insertion starts.
C2_Thm ==
    /\ \A i, j \in 1..Len(issued) : i # j => issued[i] # issued[j]
    /\ \A t \in Threads : pc[t] = "ld_insert_db" => session_id[t] \notin DOMAIN db

\* two loads have returned
C2_Wit == Len(issued) >= 2

\* C3: no step removes or rebinds an entry of the registry or replaces the
\* lock of a session: an id maps to the same connection and the same lock
\* in every later state.
C3_Thm ==
    [][\A s \in DOMAIN db :
          /\ s \in DOMAIN db'
          /\ db'[s] = db[s]
          /\ s \in DOMAIN session_lock =>
                /\ s \in DOMAIN session_lock'
                /\ session_lock'[s] = session_lock[s]]_vars

\* a load has inserted its entry and its lock next to an earlier session
C3_Wit == Len(issued) >= 1 /\ \E t \in Threads : pc[t] = "ld_release"

\* C4: safe_execute on a session id that is not registered ends with the
\* invalid-session error, having created no cursor, invoked no action and
\* acquired no lock, and leaves the registry and the locks unchanged; only
\* a registered id gets past the test.
C4_Thm ==
    /\ [][(ended'.kind = "raise" /\ ended'.val = "InvalidSession") =>
             /\ ended'.sid \notin DOMAIN db
             /\ UNCHANGED <<shared, pc, locals, history, active>>]_vars
    /\ [][\A t \in Threads :
             (pc[t] = "idle" /\ pc'[t] = "se_acquire_master") =>
                 arg_sid'[t] \in DOMAIN db]_vars

\* a call on an unregistered id has ended while a session is registered
C4_Wit ==
    /\ ended.kind = "raise"
    /\ ended.val = "InvalidSession"
    /\ DOMAIN db # {}

\* C5: a call whose action raises the transient error at every invocation
\* (and whose cursors are all created) invokes the action exactly 10 times,
\* never an 11th, sleeps 3, 6, ..., 30 and ends with the retry-exhausted error.
C5_Thm ==
    /\ [](\A t \in Threads :
            /\ attempts[t] <= 10
            /\ (/\ pc[t] \in ReleasePcs
                /\ attempts[t] > 0
                /\ busies[t] = attempts[t]
                /\ exc[t] \notin CursorErrors) =>
                  /\ exc[t] = "RetryExhausted"
                  /\ attempts[t] = 10
                  /\ sleeps[t] = <<3, 6, 9, 12, 15, 18, 21, 24, 27, 30>>)
    /\ [][\A t \in Threads :
            (/\ pc[t] = "se_release_master"
             /\ exc[t] = "RetryExhausted"
             /\ pc'[t] # pc[t]) =>
                ended' = EndOf(t, Raised("RetryExhausted"))]_vars

\* a call is leaving after ten transient failures
C5_Wit ==
    \E t \in Threads :
        pc[t] = "se_release_master" /\ busies[t] = 10 /\ attempts[t] = 10

\* C6: a call whose action raises the transient error k times (0 <= k <= 9)
\* and then succeeds returns the result of that invocation after exactly k+1
\* invocations and k sleeps of 3, 6, ..., 3k.
C6_Thm ==
    /\ [](\A t \in Threads :
            (pc[t] \in ReleasePcs \cup {"se_close_return"} /\ exc[t] = None) =>
                /\ busies[t] <= 9
                /\ attempts[t] = busies[t] + 1
                /\ Backoff(sleeps[t], busies[t])
                /\ res[t] \in ActionResults(t))
    /\ [][\A t \in Threads :
            (/\ pc[t] = "se_release_master"
             /\ op[t] = "safe_execute"
             /\ exc[t] = None
             /\ pc'[t] # pc[t]) =>
                ended' = EndOf(t, Returned(res[t]))]_vars

\* a call is returning after two transient failures
C6_Wit ==
    \E t \in Threads :
        /\ pc[t] = "se_release_master"
        /\ op[t] = "safe_execute"
        /\ exc[t] = None
        /\ busies[t] = 2

\* C7: once the action has raised an error that is not the transient one,
\* the action is not invoked again and no sleep follows, and the call ends
\* with that same error, whatever number of transient failures came before.
C7_Thm ==
    /\ [](\A t \in Threads :
            pc[t] = "se_close_raise" =>
                /\ exc[t] \in OtherErrors
                /\ attempts[t] = busies[t] + 1
                /\ Len(sleeps[t]) = busies[t])
    /\ [][\A t \in Threads :
            exc[t] \in OtherErrors =>
                \/ /\ attempts'[t] = attempts[t]
                   /\ sleeps'[t] = sleeps[t]
                   /\ exc'[t] = exc[t]
                   /\ pc'[t] # "idle"
                \/ /\ pc[t] = "se_release_master"
                   /\ ended' = EndOf(t, Raised(exc[t]))]_vars

\* a call is leaving with the error of its action after a transient failure
C7_Wit ==
    \E t \in Threads :
        /\ pc[t] = "se_release_master"
        /\ exc[t] \in OtherErrors
        /\ busies[t] >= 1

\* C8: every cursor created in safe_execute is closed exactly once before
\* the call ends, on every exit path: no cursor is open when no safe_execute
\* call is in progress.
C8_Thm ==
    /\ \A c \in Conns :
          openCursors[c] = Cardinality({t \in Threads : cursor[t] = c})
    /\ \A t \in Threads :
          /\ closed[t] <= created[t]
          /\ created[t] <= closed[t] + 1
          /\ pc[t] \in ReleasePcs \cup {"cm_return"} =>
                closed[t] = created[t] /\ cursor[t] = 0
    /\ (\A t \in Threads : op[t] \notin {"safe_execute", "commit"}) =>
          \A c \in Conns : openCursors[c] = 0

\* no call is in progress after one ended with the error of its action
C8_Wit ==
    /\ \A t \in Threads : pc[t] = "idle"
    /\ ended.kind = "raise"
    /\ ended.val \in OtherErrors

\* C9: safe_execute acquires the registry-wide lock, then the session lock,
\* holds both throughout the loop, releases the session lock and then the
\* registry-wide lock on every exit path, and holds neither once it has ended.
C9_Thm ==
    \A t \in Threads :
        /\ pc[t] = "se_acquire_session" =>
              master_lock = t /\ HeldLocks(t) = {} /\ acquired[t] = <<"master">>
        /\ pc[t] \in LoopPcs \cup {"se_release_session"} =>
              /\ master_lock = t
              /\ HoldsSession(t)
              /\ acquired[t] = <<"master", "session">>
        /\ pc[t] = "se_release_master" => master_lock = t /\ HeldLocks(t) = {}
        /\ pc[t] \in {"idle", "se_acquire_master", "cm_return"} =>
              master_lock # t /\ HeldLocks(t) = {}

\* a call that exhausted its retries has ended
C9_Wit ==
    /\ ended.kind = "raise"
    /\ ended.val = "RetryExhausted"
    /\ pc[ended.thread] = "idle"

\* C10 as stated: commit invokes the commit operation of the connection
\* exactly once per call and returns true when no error leaves it; it never
\* returns false, every failure leaves it by raising.
C10_Orig ==
    /\ [](\A t \in Threads :
            (op[t] = "commit" /\ pc[t] = "se_release_master" /\ exc[t] = None) =>
                commitCalls[t] = 1)
    /\ [](ended.op = "commit" =>
            \/ ended.kind = "return" /\ ended.val = "True"
            \/ ended.kind = "raise")
    /\ [][\A t \in Threads :
            /\ (pc[t] = "cm_return" /\ pc'[t] # pc[t]) =>
                  ended' = EndOf(t, Returned("True"))
            /\ (/\ op[t] = "commit"
                /\ pc[t] = "se_release_master"
                /\ exc[t] # None
                /\ pc'[t] # pc[t]) =>
                  ended' = EndOf(t, Raised(exc[t]))]_vars

\* C10, amended: commit invokes the commit operation once per attempt, that
\* is once more than the number of transient errors it raised, hence exactly
\* once when it raises none; commit returns true when no error leaves it,
\* never false, and every failure leaves it by raising.
C10_Thm ==
    /\ [](\A t \in Threads :
            /\ op[t] = "commit" => commitCalls[t] = attempts[t]
            /\ (op[t] = "commit" /\ pc[t] = "se_release_master" /\ exc[t] = None) =>
                  /\ commitCalls[t] = busies[t] + 1
                  /\ busies[t] = 0 => commitCalls[t] = 1)
    /\ [](ended.op = "commit" =>
            \/ ended.kind = "return" /\ ended.val = "True"
            \/ /\ ended.kind = "raise"
               /\ ended.val \in {"InvalidSession", "RetryExhausted"}
                                  \cup OtherErrors \cup CursorErrors)
    /\ [][\A t \in Threads :
            /\ (pc[t] = "cm_return" /\ pc'[t] # pc[t]) =>
                  ended' = EndOf(t, Returned("True"))
            /\ (/\ op[t] = "commit"
                /\ pc[t] = "se_release_master"
                /\ exc[t] # None
                /\ pc'[t] # pc[t]) =>
                  ended' = EndOf(t, Raised(exc[t]))]_vars

\* a commit is returning after its commit operation was retried once
C10_Wit ==
    \E t \in Threads :
        /\ op[t] = "commit"
        /\ pc[t] = "se_release_master"
        /\ exc[t] = None
        /\ commitCalls[t] = 2

\* the acquire that thread t is at cannot go through
Blocked(t) ==
    \/ pc[t] \in {"ld_acquire", "se_acquire_master"} /\ ~Unlocked(master_lock)
    \/ /\ pc[t] = "se_acquire_session"
       /\ arg_sid[t] \in DOMAIN session_lock
       /\ ~Unlocked(locks[session_lock[arg_sid[t]]])

\* C11: deadlock freedom and termination, with actions that do not call
\* back into the registry.  In no reachable state are all threads blocked
\* on locks: whenever some thread is inside a call, some thread inside a
\* call is not blocked.  Under fair scheduling, with every action and every
\* sleep returning, every call eventually ends, by returning or by raising.
C11_Thm ==
    /\ [](~(\A t \in Threads : Blocked(t)))
    /\ []((\E t \in Threads : pc[t] # "idle") =>
            \E t \in Threads : pc[t] # "idle" /\ ~Blocked(t))
    /\ \A t \in Threads :
          (pc[t] # "idle") ~>
              (ended.thread = t /\ ended.kind \in {"return", "raise"})

\* a thread waits for the registry-wide lock while the thread holding it
\* sleeps before a retry
C11_Wit ==
    \E t, u \in Threads :
        /\ pc[t] = "se_sleep"
        /\ failures[t] >= 2
        /\ Blocked(u)

\* thread t runs the membership test of safe_execute in this step
MembershipTest(t) ==
    /\ pc[t] = "idle"
    /\ \/ pc'[t] = "se_acquire_master"
       \/ /\ ended'.thread = t
          /\ ended'.kind = "raise"
          /\ ended'.val = "InvalidSession"

\* thread u is inside the critical section of load, its id drawn and the
\* insertion of the connection and of the session lock not finished
InsideLoad(u) ==
    /\ master_lock = u
    /\ pc[u] \in {"ld_insert_db", "ld_insert_lock"}

\* C12 as stated: the unknown-session check of safe_execute is made with no
\* lock held by the caller, and its read of the registry is synchronized
\* with load: it never happens while another thread is inside the critical
\* section of load, between drawing an id and finishing the insertion.
C12_Orig ==
    [][\A t \in Threads :
         MembershipTest(t) =>
            /\ master_lock # t
            /\ HeldLocks(t) = {}
            /\ \A u \in Threads \ {t} : ~InsideLoad(u)]_vars

\* C13: at every instant at most one cursor created by safe_execute is open
\* over all sessions and connections, it is the cursor of the thread that
\* holds the registry-wide lock, and a cursor is created only when the
\* cursors of the earlier attempts of the call are closed and none is open.
C13_Thm ==
    /\ [](/\ Cardinality({t \in Threads : cursor[t] # 0}) <= 1
          /\ Cardinality({c \in Conns : openCursors[c] # 0}) <= 1
          /\ \A c \in Conns : openCursors[c] <= 1
          /\ \A t \in Threads :
                /\ cursor[t] # 0 =>
                      /\ master_lock = t
                      /\ cursor[t] = db[arg_sid[t]]
                      /\ openCursors[cursor[t]] = 1
                /\ pc[t] = "se_cursor" =>
                      /\ cursor[t] = 0
                      /\ closed[t] = created[t]
                      /\ created[t] = busies[t]
                /\ pc[t] \in {"se_action", "se_in_action", "se_sleep"}
                               \cup ClosePcs =>
                      /\ cursor[t] # 0
                      /\ created[t] = closed[t] + 1)
    /\ [][\A t \in Threads :
            created'[t] > created[t] =>
                /\ master_lock = t
                /\ closed[t] = created[t]
                /\ \A c \in Conns : openCursors[c] = 0
                /\ cursor'[t] = db[arg_sid[t]]]_vars

\* a thread is about to create the cursor of its third attempt while another
\* thread has called safe_execute on another session
C13_Wit ==
    \E t, u \in Threads :
        /\ pc[t] = "se_cursor"
        /\ closed[t] = 2
        /\ pc[u] = "se_acquire_master"
        /\ arg_sid[u] # arg_sid[t]

\* the statements at which a thread is not inside a critical section
OutsidePcs == {"idle", "ld_acquire", "se_acquire_master", "cm_return"}

\* C14: a backoff sleep runs with the registry-wide lock and the session lock
\* of the call held by the sleeping thread, and from the first attempt of a
\* call until the call leaves safe_execute every other thread is outside the
\* critical sections: no step invokes the action of another call, and no
\* step inserts into the registry.
C14_Thm ==
    /\ [](\A t \in Threads :
            /\ pc[t] \in {"se_sleep", "se_close_retry"} =>
                  /\ master_lock = t
                  /\ HoldsSession(t)
                  /\ HeldLocks(t) = {session_lock[arg_sid[t]]}
            /\ (attempts[t] >= 1 /\ pc[t] \in LoopPcs \cup ReleasePcs) =>
                  /\ active = (IF pc[t] = "se_in_action" THEN 1 ELSE 0)
                  /\ \A u \in Threads \ {t} :
                        pc[u] \in OutsidePcs /\ attempts[u] = 0)
    /\ [][\A t \in Threads :
            (attempts[t] >= 1 /\ pc[t] \in LoopPcs \cup ReleasePcs) =>
                /\ db' = db
                /\ session_lock' = session_lock
                /\ \A u \in Threads \ {t} :
                      attempts'[u] = attempts[u] /\ pc'[u] \in OutsidePcs]_vars

\* a thread sleeps before its second attempt while another thread has
\* called load and waits for the registry-wide lock
C14_Wit ==
    \E t, u \in Threads :
        /\ pc[t] = "se_sleep"
        /\ sleeps[t] = <<>>
        /\ pc[u] = "ld_acquire"

\* C15: the session lock is redundant under the registry-wide lock: a
\* session lock is held only by the thread that holds the registry-wide
\* lock, it is taken and released only in steps of that thread, and the
\* session lock a call of safe_execute requests is free when it is
\* requested, so that acquire never waits.
C15_Thm ==
    /\ [](/\ \A l \in DOMAIN locks :
                locks[l] # NoThread => locks[l] = master_lock
          /\ \A t \in Threads :
                pc[t] = "se_acquire_session" =>
                    /\ master_lock = t
                    /\ arg_sid[t] \in DOMAIN session_lock
                    /\ Unlocked(locks[session_lock[arg_sid[t]]])
                    /\ ~Blocked(t))
    /\ [][/\ \A l \in DOMAIN locks :
                locks'[l] # locks[l] =>
                    /\ master_lock \in Threads
                    /\ master_lock' = master_lock
                    /\ {locks[l], locks'[l]} = {NoThread, master_lock}
          /\ \A t \in Threads :
                (pc[t] = "se_acquire_session" /\ pc'[t] # pc[t]) =>
                    /\ pc'[t] = "se_cursor"
                    /\ locks'[session_lock[arg_sid[t]]] = t]_vars

\* a thread requests the lock of a session on which another thread has
\* called safe_execute too, after both sessions' locks were created
C15_Wit ==
    \E t, u \in Threads :
        /\ pc[t] = "se_acquire_session"
        /\ pc[u] = "se_acquire_master"
        /\ arg_sid[u] = arg_sid[t]
        /\ Cardinality(DOMAIN locks) = 2

\* C16: a call of safe_execute that passed the membership test finds the
\* lock and the connection of its session.  The two mappings have the same
\* keys whenever the registry-wide lock is not held by a load, they differ
\* by at most the id a load is inserting, safe_execute reads the mapping of
\* session locks only with the registry-wide lock held, and no call ends
\* with a failed lookup.
C16_Thm ==
    /\ [](/\ (\A u \in Threads : ~(master_lock = u /\ op[u] = "load")) =>
                DOMAIN db = DOMAIN session_lock
          /\ DOMAIN session_lock \subseteq DOMAIN db
          /\ \A s \in (DOMAIN db) \ (DOMAIN session_lock) :
                \E u \in Threads :
                    master_lock = u /\ pc[u] = "ld_insert_lock" /\ session_id[u] = s
          /\ \A t \in Threads :
                /\ pc[t] = "se_acquire_master" => arg_sid[t] \in DOMAIN db
                /\ pc[t] \in {"se_acquire_session"} \cup LoopPcs \cup ReleasePcs =>
                      /\ master_lock = t
                      /\ arg_sid[t] \in DOMAIN db
                      /\ arg_sid[t] \in DOMAIN session_lock
                      /\ session_lock[arg_sid[t]] \in DOMAIN locks
          /\ ~(ended.kind = "raise" /\ ended.val = "KeyError"))
    /\ [][\A t \in Threads :
            /\ (pc[t] = "se_acquire_session" /\ pc'[t] # pc[t]) =>
                  /\ master_lock = t
                  /\ arg_sid[t] \in DOMAIN session_lock
                  /\ pc'[t] = "se_cursor"
                  /\ ended' = NoEnd
            /\ (pc[t] = "se_cursor" /\ pc'[t] = "se_action") =>
                  /\ arg_sid[t] \in DOMAIN db
                  /\ cursor'[t] = db[arg_sid[t]]]_vars

\* a call of safe_execute has passed the membership test for a session whose
\* connection a load has inserted and whose lock it has not inserted yet
C16_Wit ==
    \E t, u \in Threads :
        /\ pc[t] = "ld_insert_lock"
        /\ pc[u] = "se_acquire_master"
        /\ arg_sid[u] = session_id[t]
        /\ arg_sid[u] \notin DOMAIN session_lock

\* thread t is at the first acquire of a call it made from inside its action
Nested(t) ==
    /\ master_lock = t
    /\ pc[t] \in {"ld_acquire", "se_acquire_master"}

\* C17: an action that calls load, safe_execute or commit of its own
\* registry never completes.  The nested call is blocked at its acquire of
\* the registry-wide lock, which its own thread holds, and stays there in
\* every later state with the action still in progress; every other thread
\* is outside the critical sections, and one that has called load or
\* safe_execute stays blocked at its acquire.
C17_Thm ==
    /\ [](\A t \in Threads :
            Nested(t) =>
                /\ Blocked(t)
                /\ ~ENABLED ThreadStep(t)
                /\ active = 1
                /\ cursor[t] # 0
                /\ \A u \in Threads \ {t} :
                      /\ pc[u] \in OutsidePcs
                      /\ pc[u] \in {"ld_acquire", "se_acquire_master"} =>
                            Blocked(u) /\ ~ENABLED ThreadStep(u))
    /\ [][\A t \in Threads :
            Nested(t) =>
                /\ Nested(t)'
                /\ pc'[t] = pc[t]
                /\ active' = active
                /\ master_lock' = master_lock
                /\ \A u \in Threads :
                      pc[u] \in {"ld_acquire", "se_acquire_master"} =>
                          pc'[u] = pc[u]]_vars

\* an action has called safe_execute on its registry, and another thread has
\* called load
C17_Wit ==
    \E t, u \in Threads :
        /\ Nested(t)
        /\ pc[t] = "se_acquire_master"
        /\ pc[u] = "ld_acquire"
        /\ u # t

\* C18: an error raised by connection.cursor(), the transient-busy error
\* included, is not retried and adds no sleep.  With it in flight the thread
\* is at the releases of the finally clause, the action was not invoked for
\* that attempt, no cursor is open, no sleep was added, and the call ends by
\* raising that error with both locks released.
C18_Thm ==
    /\ [](\A t \in Threads :
            /\ Len(sleeps[t]) <= busies[t]
            /\ attempts[t] <= created[t]
            /\ exc[t] \in CursorErrors =>
                  /\ pc[t] \in ReleasePcs
                  /\ master_lock = t
                  /\ cursor[t] = 0
                  /\ closed[t] = created[t]
                  /\ attempts[t] = created[t]
                  /\ busies[t] = attempts[t]
                  /\ Len(sleeps[t]) = busies[t]
                  /\ failures[t] = busies[t]
                  /\ \A c \in Conns : openCursors[c] = 0)
    /\ [][\A t \in Threads :
            exc[t] \in CursorErrors =>
               \/ pc'[t] = pc[t] /\ exc'[t] = exc[t]
               \/ /\ pc[t] = "se_release_session"
                  /\ pc'[t] = "se_release_master"
                  /\ exc'[t] = exc[t]
                  /\ UNCHANGED <<attempts, sleeps, created, closed>>
                  /\ HeldLocks(t)' = {}
               \/ /\ pc[t] = "se_release_master"
                  /\ ended' = EndOf(t, Raised(exc[t]))
                  /\ pc'[t] = "idle"
                  /\ master_lock' = NoThread
                  /\ HeldLocks(t)' = {}]_vars

\* connection.cursor() has raised the transient-busy error at the third
\* attempt of a call
C18_Wit ==
    \E t \in Threads :
        /\ exc[t] = "OperationalError"
        /\ pc[t] = "se_release_master"
        /\ busies[t] = 2

Min(a, b) == IF a <= b THEN a ELSE b

\* C19: on a transient failure the cursor of the failed attempt is open
\* during the whole backoff sleep and is closed only once the sleep is over:
\* the cursors of failed attempts that are closed never outnumber the sleeps
\* that are over.  On a return or a non-transient error the cursor is closed
\* before the result or the error leaves safe_execute.
C19_Thm ==
    /\ [](/\ \A t \in Threads :
                /\ Min(closed[t], busies[t]) <= Len(sleeps[t])
                /\ pc[t] \in {"se_sleep", "se_close_retry"} =>
                      /\ cursor[t] = db[arg_sid[t]]
                      /\ openCursors[cursor[t]] = 1
                      /\ closed[t] = busies[t] - 1
                      /\ Len(sleeps[t]) = (IF pc[t] = "se_sleep"
                                             THEN busies[t] - 1
                                             ELSE busies[t])
                /\ pc[t] \in ReleasePcs =>
                      /\ cursor[t] = 0
                      /\ closed[t] = created[t]
                      /\ \A c \in Conns : openCursors[c] = 0
          /\ ended.thread # NoThread => cursor[ended.thread] = 0)
    /\ [][\A t \in Threads :
            /\ (pc[t] = "se_sleep" /\ pc'[t] # pc[t]) =>
                  /\ Len(sleeps'[t]) = Len(sleeps[t]) + 1
                  /\ cursor[t] # 0
                  /\ cursor'[t] = cursor[t]
                  /\ closed'[t] = closed[t]
                  /\ openCursors' = openCursors
            /\ (closed'[t] > closed[t] /\ attempts[t] = busies[t]) =>
                  Len(sleeps[t]) = busies[t]
            /\ (pc[t] \in {"se_close_return", "se_close_raise"}
                   /\ pc'[t] # pc[t]) =>
                  /\ closed'[t] = closed[t] + 1
                  /\ openCursors'[cursor[t]] = 0
                  /\ cursor'[t] = 0
                  /\ pc'[t] = "se_release_session"]_vars

\* the second backoff sleep of a call is over and the cursor of the failed
\* attempt is still open
C19_Wit ==
    \E t \in Threads :
        /\ pc[t] = "se_close_retry"
        /\ Len(sleeps[t]) = 2
        /\ closed[t] = 1
        /\ openCursors[cursor[t]] = 1

\* C20: a backoff sleep follows every transient failure, the tenth
\* included.  The failure counter of a call is the number of transient
\* failures of that call and is 0 when the call starts; the sleeps of a call
\* are as many as its transient failures once the sleep in progress is
\* over; the k-th sleep is of 3 * k; the tenth sleep, of 30, runs with both
\* locks held, and the retry-exhausted error is raised only after it.
C20_Thm ==
    /\ [](\A t \in Threads :
            /\ failures[t] = busies[t]
            /\ failures[t] <= MaxFailures
            /\ sleeps[t] # <<>> =>
                  sleeps[t][Len(sleeps[t])] = 3 * Len(sleeps[t])
            /\ Len(sleeps[t]) = (IF pc[t] = "se_sleep" THEN busies[t] - 1
                                                       ELSE busies[t])
            /\ pc[t] \in {"idle", "ld_acquire", "se_acquire_master",
                          "se_acquire_session", "cm_return"} =>
                  failures[t] = 0 /\ sleeps[t] = <<>>
            /\ (pc[t] = "se_cursor" /\ created[t] = 0) => failures[t] = 0
            /\ pc[t] = "se_sleep" =>
                  /\ failures[t] >= 1
                  /\ master_lock = t
                  /\ HoldsSession(t)
                  /\ exc[t] = None
            /\ (pc[t] = "se_close_retry" /\ failures[t] = MaxFailures) =>
                  /\ Len(sleeps[t]) = 10
                  /\ sleeps[t][10] = 30
                  /\ exc[t] = None
                  /\ master_lock = t
                  /\ HoldsSession(t)
            /\ exc[t] = "RetryExhausted" =>
                  /\ pc[t] \in ReleasePcs
                  /\ failures[t] = MaxFailures
                  /\ Backoff(sleeps[t], 10)
                  /\ sleeps[t][10] = 30)
    /\ [][\A t \in Threads :
            /\ busies'[t] > busies[t] =>
                  /\ pc'[t] = "se_sleep"
                  /\ failures'[t] = failures[t] + 1
            /\ (pc[t] = "se_sleep" /\ pc'[t] # pc[t]) =>
                  /\ pc'[t] = "se_close_retry"
                  /\ sleeps'[t] = Append(sleeps[t], 3 * failures[t])
            /\ (exc[t] = None /\ exc'[t] = "RetryExhausted") =>
                  /\ failures[t] = MaxFailures
                  /\ Len(sleeps[t]) = 10
            /\ (pc[t] = "se_acquire_session" /\ pc'[t] = "se_cursor") =>
                  failures'[t] = 0]_vars

\* the tenth sleep of a call is in progress while another thread has called
\* safe_execute
C20_Wit ==
    \E t, u \in Threads :
        /\ pc[t] = "se_sleep"
        /\ failures[t] = 10
        /\ Len(sleeps[t]) = 9
        /\ pc[u] = "se_acquire_master"
====
